---- MODULE Spec2Model ----
(***************************************************************************)
(* A model of pyems, the client of the EvoStream Media Server              *)
(* administrative API: the Api facade (src/pyems/__init__.py) and the      *)
(* transports and response decoder (src/pyems/protocols.py).               *)
(*                                                                         *)
(* Python semantics assumed: CPython >= 3.7 (dicts and **kwargs keep       *)
(* insertion order; socket.error is OSError).                              *)
(* Text is modelled by TLA+ strings, read character by character; a        *)
(* Python dict is a sequence of <<key, value>> pairs with distinct keys,   *)
(* in insertion order.                                                     *)
(***************************************************************************)
EXTENDS Integers, Sequences, FiniteSets, TLC

----------------------------------------------------------------------------
(* Bounds of the model                                                     *)

\* most positional arguments a caller passes to a facade method
MaxArgs == 2
\* most keyword arguments a caller passes to a facade method
MaxKw == 1
\* most keyword arguments in the runs that explore the request encoding
MaxUriKw == 2

----------------------------------------------------------------------------
(* Characters and bytes                                                    *)

\* the ASCII characters 32..95 and 97..125, in code order
AsciiLo == " !\"#$%&'()*+,-./0123456789:;<=>?@ABCDEFGHIJKLMNOPQRSTUVWXYZ[\\]^_"
AsciiHi == "abcdefghijklmnopqrstuvwxyz{|}"

CharAt(s, i) == SubSeq(s, i, i)

\* The character outside ASCII that the model's inputs use is U+00E9;
\* the model writes it "~", which therefore never stands for the tilde.
NonAscii == {"~"}

\* ord(c) of Python, for the characters of the model
ord ==
    " " :> 32 @@ "!" :> 33 @@ "\"" :> 34 @@ "#" :> 35 @@ "$" :> 36 @@ "%" :> 37 @@
    "&" :> 38 @@ "'" :> 39 @@ "(" :> 40 @@ ")" :> 41 @@ "*" :> 42 @@ "+" :> 43 @@
    "," :> 44 @@ "-" :> 45 @@ "." :> 46 @@ "/" :> 47 @@ "0" :> 48 @@ "1" :> 49 @@
    "2" :> 50 @@ "3" :> 51 @@ "4" :> 52 @@ "5" :> 53 @@ "6" :> 54 @@ "7" :> 55 @@
    "8" :> 56 @@ "9" :> 57 @@ ":" :> 58 @@ ";" :> 59 @@ "<" :> 60 @@ "=" :> 61 @@
    ">" :> 62 @@ "?" :> 63 @@ "@" :> 64 @@ "A" :> 65 @@ "B" :> 66 @@ "C" :> 67 @@
    "D" :> 68 @@ "E" :> 69 @@ "F" :> 70 @@ "G" :> 71 @@ "H" :> 72 @@ "I" :> 73 @@
    "J" :> 74 @@ "K" :> 75 @@ "L" :> 76 @@ "M" :> 77 @@ "N" :> 78 @@ "O" :> 79 @@
    "P" :> 80 @@ "Q" :> 81 @@ "R" :> 82 @@ "S" :> 83 @@ "T" :> 84 @@ "U" :> 85 @@
    "V" :> 86 @@ "W" :> 87 @@ "X" :> 88 @@ "Y" :> 89 @@ "Z" :> 90 @@ "[" :> 91 @@
    "\\" :> 92 @@ "]" :> 93 @@ "^" :> 94 @@ "_" :> 95 @@ "a" :> 97 @@ "b" :> 98 @@
    "c" :> 99 @@ "d" :> 100 @@ "e" :> 101 @@ "f" :> 102 @@ "g" :> 103 @@ "h" :> 104 @@
    "i" :> 105 @@ "j" :> 106 @@ "k" :> 107 @@ "l" :> 108 @@ "m" :> 109 @@ "n" :> 110 @@
    "o" :> 111 @@ "p" :> 112 @@ "q" :> 113 @@ "r" :> 114 @@ "s" :> 115 @@ "t" :> 116 @@
    "u" :> 117 @@ "v" :> 118 @@ "w" :> 119 @@ "x" :> 120 @@ "y" :> 121 @@ "z" :> 122 @@
    "{" :> 123 @@ "|" :> 124 @@ "}" :> 125 @@ "~" :> 233

\* str.lower() on one character
lower_char == [c \in DOMAIN ord |->
                 IF ord[c] >= 65 /\ ord[c] <= 90
                   THEN CharAt(AsciiHi, ord[c] - 64)
                   ELSE c]

RECURSIVE lower(_)
lower(s) == IF Len(s) = 0 THEN "" ELSE lower_char[CharAt(s, 1)] \o lower(SubSeq(s, 2, Len(s)))

\* the first position of character c in s, 0 when absent (str.find)
find(s, c) == IF \E i \in 1..Len(s) : CharAt(s, i) = c
                THEN CHOOSE i \in 1..Len(s) :
                       /\ CharAt(s, i) = c
                       /\ \A j \in 1..(i - 1) : CharAt(s, j) # c
                ELSE 0

\* str.encode('ascii'): the bytes of s, or UnicodeEncodeError
ascii_encode(s) ==
    IF \E i \in 1..Len(s) : ord[CharAt(s, i)] > 127
      THEN [ok |-> FALSE, exc |-> "UnicodeEncodeError"]
      ELSE [ok |-> TRUE, bytes |-> [i \in 1..Len(s) |-> ord[CharAt(s, i)]]]

\* the decimal digits of a natural number, and '%s' % n for an int
RECURSIVE digits(_)
digits(n) == IF n < 10 THEN CharAt("0123456789", n + 1)
             ELSE digits(n \div 10) \o CharAt("0123456789", (n % 10) + 1)

int_str(n) == IF n < 0 THEN "-" \o digits(0 - n) ELSE digits(n)

----------------------------------------------------------------------------
(* base64.b64encode, RFC 4648 standard alphabet with '=' padding           *)

B64Alphabet == "ABCDEFGHIJKLMNOPQRSTUVWXYZabcdefghijklmnopqrstuvwxyz0123456789+/"

B64Char(v) == CharAt(B64Alphabet, v + 1)

RECURSIVE b64encode(_)
b64encode(b) ==
    IF Len(b) = 0 THEN ""
    ELSE IF Len(b) = 1 THEN
        B64Char(b[1] \div 4) \o B64Char((b[1] % 4) * 16) \o "=="
    ELSE IF Len(b) = 2 THEN
        B64Char(b[1] \div 4) \o B64Char((b[1] % 4) * 16 + b[2] \div 16)
          \o B64Char((b[2] % 16) * 4) \o "="
    ELSE
        B64Char(b[1] \div 4) \o B64Char((b[1] % 4) * 16 + b[2] \div 16)
          \o B64Char((b[2] % 16) * 4 + b[3] \div 64) \o B64Char(b[3] % 64)
          \o b64encode(SubSeq(b, 4, Len(b)))

----------------------------------------------------------------------------
(* Python values                                                           *)

PyStr(s) == [t |-> "str", s |-> s]
PyInt(n) == [t |-> "int", n |-> n]
PyList(l) == [t |-> "list", items |-> l]
\* a dict: its <<key, value>> pairs in insertion order, keys are texts
PyDict(l) == [t |-> "dict", pairs |-> l]
PyNone == [t |-> "None"]
\* an exception object: its class and the single argument it was built with
PyExc(type, arg) == [t |-> "exc", type |-> type, arg |-> arg]

\* the outcome of a function: a returned value, or a raised exception
Return(v) == [ok |-> TRUE, value |-> v]
Raise(type, arg) == [ok |-> FALSE, exc |-> PyExc(type, arg)]

\* '%s' % v for a scalar
format(v) == IF v.t = "int" THEN int_str(v.n)
             ELSE IF v.t = "str" THEN v.s
             ELSE "None"

HasKey(params, k) == \E i \in 1..Len(params) : params[i][1] = k

Lookup(params, k) == params[CHOOSE i \in 1..Len(params) : params[i][1] = k][2]

\* obj[k] of Python: the value, KeyError on a dict without k, TypeError on
\* an object that a text cannot index
getitem(obj, k) ==
    IF obj.t = "dict"
      THEN IF HasKey(obj.pairs, k) THEN Return(Lookup(obj.pairs, k))
           ELSE Raise("KeyError", PyStr(k))
      ELSE Raise("TypeError", PyStr("indices must be integers"))

----------------------------------------------------------------------------
(* src/pyems/protocols.py                                                  *)

\* a table that maps the telnet scheme to the HTTP transport as well
SCHEMES_all_http == [http |-> "HTTPProtocol", telnet |-> "HTTPProtocol"]

\* SCHEMES: the transport class of each recognized scheme
SCHEMES == [http |-> "HTTPProtocol", telnet |-> "TelnetProtocol"]

\* the response bodies the server side of the model can answer with
BodyOkCount == "{\"status\":\"OK\",\"data\":{\"count\":5}}"
BodyOkList == "{\"status\":\"OK\",\"data\":[\"a\",\"b\"]}"
BodySuccessNull == "{\"data\":null,\"description\":\"Available streams\",\"status\":\"SUCCESS\"}"
BodyOkScalar == "{\"status\":\"OK\",\"data\":7}"
BodyFail == "{\"status\":\"FAIL\",\"description\":\"stream not found\"}"
BodyFailData == "{\"data\":[1],\"description\":\"\",\"status\":\"FAIL\"}"
BodyFailBare == "{\"status\":\"FAIL\"}"
BodyOkBare == "{\"status\":\"OK\"}"
BodyLowerFail == "{\"status\":\"fail\",\"description\":\"x\",\"data\":3}"
BodyNoStatus == "{\"data\":1}"
BodyList == "[]"
BodyTruncated == "{\"status\":\"OK\",\"da"
BodyEmpty == ""

Bodies == {BodyOkCount, BodyOkList, BodySuccessNull, BodyOkScalar, BodyFail,
           BodyFailData, BodyFailBare, BodyOkBare, BodyLowerFail,
           BodyNoStatus, BodyList, BodyTruncated, BodyEmpty}

\* json.loads on the bodies of the model: the parsed document, or
\* ValueError (json.JSONDecodeError) on text that is not JSON
json_loads(text) ==
    CASE text = BodyOkCount ->
           Return(PyDict(<< <<"status", PyStr("OK")>>,
                            <<"data", PyDict(<< <<"count", PyInt(5)>> >>)>> >>))
      [] text = BodyOkList ->
           Return(PyDict(<< <<"status", PyStr("OK")>>,
                            <<"data", PyList(<<PyStr("a"), PyStr("b")>>)>> >>))
      [] text = BodySuccessNull ->
           Return(PyDict(<< <<"data", PyNone>>,
                            <<"description", PyStr("Available streams")>>,
                            <<"status", PyStr("SUCCESS")>> >>))
      [] text = BodyOkScalar ->
           Return(PyDict(<< <<"status", PyStr("OK")>>, <<"data", PyInt(7)>> >>))
      [] text = BodyFail ->
           Return(PyDict(<< <<"status", PyStr("FAIL")>>,
                            <<"description", PyStr("stream not found")>> >>))
      [] text = BodyFailData ->
           Return(PyDict(<< <<"data", PyList(<<PyInt(1)>>)>>,
                            <<"description", PyStr("")>>,
                            <<"status", PyStr("FAIL")>> >>))
      [] text = BodyFailBare ->
           Return(PyDict(<< <<"status", PyStr("FAIL")>> >>))
      [] text = BodyOkBare ->
           Return(PyDict(<< <<"status", PyStr("OK")>> >>))
      [] text = BodyLowerFail ->
           Return(PyDict(<< <<"status", PyStr("fail")>>,
                            <<"description", PyStr("x")>>,
                            <<"data", PyInt(3)>> >>))
      [] text = BodyNoStatus ->
           Return(PyDict(<< <<"data", PyInt(1)>> >>))
      [] text = BodyList -> Return(PyList(<<>>))
      [] OTHER -> Raise("ValueError", PyStr("Expecting value"))

\* parse_result raising the status instead of the description
parse_result_raises_status(result) ==
    LET doc == json_loads(result) IN
    IF ~doc.ok THEN doc
    ELSE LET status == getitem(doc.value, "status") IN
         IF ~status.ok THEN status
         ELSE IF status.value = PyStr("FAIL")
           THEN Raise("EvoStreamException", status.value)
           ELSE getitem(doc.value, "data")

\* parse_result returning the whole document instead of its data
parse_result_returns_document(result) ==
    LET doc == json_loads(result) IN
    IF ~doc.ok THEN doc
    ELSE LET status == getitem(doc.value, "status") IN
         IF ~status.ok THEN status
         ELSE IF status.value = PyStr("FAIL")
           THEN LET description == getitem(doc.value, "description") IN
                IF ~description.ok THEN description
                ELSE Raise("EvoStreamException", description.value)
           ELSE doc

\* parse_result translating every failure into the domain error
parse_result_wraps_errors(result) ==
    LET doc == json_loads(result) IN
    IF ~doc.ok THEN Raise("EvoStreamException", doc.exc)
    ELSE LET status == getitem(doc.value, "status") IN
         IF ~status.ok THEN Raise("EvoStreamException", status.exc)
         ELSE IF status.value = PyStr("FAIL")
           THEN LET description == getitem(doc.value, "description") IN
                IF ~description.ok THEN Raise("EvoStreamException", description.exc)
                ELSE Raise("EvoStreamException", description.value)
           ELSE getitem(doc.value, "data")

\* parse_result reading the data with a default, result.get('data')
parse_result_default_payload(result) ==
    LET doc == json_loads(result) IN
    IF ~doc.ok THEN doc
    ELSE LET status == getitem(doc.value, "status") IN
         IF ~status.ok THEN status
         ELSE IF status.value = PyStr("FAIL")
           THEN LET description == getitem(doc.value, "description") IN
                IF ~description.ok THEN description
                ELSE Raise("EvoStreamException", description.value)
           ELSE IF HasKey(doc.value.pairs, "data") THEN getitem(doc.value, "data")
           ELSE Return(PyNone)

\* parse_result raising on every status other than "OK"
parse_result_fail_unless_ok(result) ==
    LET doc == json_loads(result) IN
    IF ~doc.ok THEN doc
    ELSE LET status == getitem(doc.value, "status") IN
         IF ~status.ok THEN status
         ELSE IF status.value # PyStr("OK")
           THEN LET description == getitem(doc.value, "description") IN
                IF ~description.ok THEN description
                ELSE Raise("EvoStreamException", description.value)
           ELSE getitem(doc.value, "data")

\* parse_result reading the description with a default,
\* result.get('description', '')
parse_result_default_description(result) ==
    LET doc == json_loads(result) IN
    IF ~doc.ok THEN doc
    ELSE LET status == getitem(doc.value, "status") IN
         IF ~status.ok THEN status
         ELSE IF status.value = PyStr("FAIL")
           THEN IF HasKey(doc.value.pairs, "description")
                  THEN Raise("EvoStreamException", Lookup(doc.value.pairs, "description"))
                  ELSE Raise("EvoStreamException", PyStr(""))
           ELSE getitem(doc.value, "data")

\* BaseProtocol.parse_result
parse_result(result) ==
    LET doc == json_loads(result) IN
    IF ~doc.ok THEN doc
    ELSE LET status == getitem(doc.value, "status") IN
         IF ~status.ok THEN status
         ELSE IF status.value = PyStr("FAIL")
           THEN LET description == getitem(doc.value, "description") IN
                IF ~description.ok THEN description
                ELSE Raise("EvoStreamException", description.value)
           ELSE getitem(doc.value, "data")

\* ' '.join(['%s=%s' % (i, params[i]) for i in params])
RECURSIVE join_params(_)
join_params(params) ==
    IF Len(params) = 0 THEN ""
    ELSE IF Len(params) = 1 THEN params[1][1] \o "=" \o format(params[1][2])
    ELSE params[1][1] \o "=" \o format(params[1][2]) \o " " \o join_params(Tail(params))

\* make_uri joining the pairs with '&' instead of a space
make_uri_ampersand(command, params) ==
    LET uri == "/" \o command IN
    IF Len(params) > 1
      THEN LET str_params == params[1][1] \o "=" \o format(params[1][2]) \o "&"
                               \o join_params(Tail(params))
               encoded == ascii_encode(str_params)
           IN IF ~encoded.ok THEN Raise(encoded.exc, PyStr(str_params))
              ELSE Return(uri \o "?params=" \o b64encode(encoded.bytes))
      ELSE IF Len(params) = 1
        THEN Return(uri \o "?" \o join_params(params))
      ELSE Return(uri)

\* make_uri encoding with errors='replace': a question mark for every
\* character outside ASCII
make_uri_ascii_replace(command, params) ==
    LET uri == "/" \o command IN
    IF Len(params) > 0
      THEN LET str_params == join_params(params)
               bytes == [i \in 1..Len(str_params) |->
                           IF ord[CharAt(str_params, i)] > 127 THEN 63
                           ELSE ord[CharAt(str_params, i)]]
           IN Return(uri \o "?params=" \o b64encode(bytes))
      ELSE Return(uri)

\* HTTPProtocol.make_uri
make_uri(command, params) ==
    LET uri == "/" \o command IN
    IF Len(params) > 0
      THEN LET str_params == join_params(params)
               encoded == ascii_encode(str_params)
           IN IF ~encoded.ok THEN Raise(encoded.exc, PyStr(str_params))
              ELSE Return(uri \o "?params=" \o b64encode(encoded.bytes))
      ELSE Return(uri)

----------------------------------------------------------------------------
(* src/pyems/__init__.py                                                   *)

\* the connection URIs a caller constructs a client from
URIs == {"http://ems:7777", "HTTP://ems:7777", "http://ems",
         "telnet://ems:1112", "ftp://host:21", ""}

RECURSIVE int_of(_)
int_of(s) == IF Len(s) = 0 THEN 0
             ELSE 10 * int_of(SubSeq(s, 1, Len(s) - 1)) + (ord[CharAt(s, Len(s))] - 48)

\* urlparse.urlparse(uri), for URIs of the form scheme://hostname[:port]
urlparse(uri) ==
    LET colon == find(uri, ":")
        scheme == IF colon = 0 THEN "" ELSE lower(SubSeq(uri, 1, colon - 1))
        netloc == IF colon = 0 THEN "" ELSE SubSeq(uri, colon + 3, Len(uri))
        sep == find(netloc, ":")
    IN [scheme |-> scheme,
        hostname |-> IF sep = 0 THEN lower(netloc) ELSE lower(SubSeq(netloc, 1, sep - 1)),
        port |-> IF sep = 0 THEN PyNone
                 ELSE PyInt(int_of(SubSeq(netloc, sep + 1, Len(netloc))))]

\* The methods of Api: the command each sends, its required arguments in
\* the order of its signature, whether @expected decorates it and with
\* which names, and whether its signature ends in **kwargs.
Ops ==
    "pull_stream"                  :> [command |-> "pullStream", required |-> <<"uri">>, decorated |-> TRUE,
                                      allow |-> <<"uri", "keepAlive", "localStreamName", "forceTcp", "tcUrl", "pageUrl", "swfUrl", "rangeStart", "rangeEnd", "ttl", "tos", "rtcpDetectionInterval", "emulateUserAgent", "isAudio", "audioCodecBytes", "spsBytes", "ppsBytes", "ssmIp", "httpProxy">>, varkw |-> TRUE] @@
    "push_stream"                  :> [command |-> "pushStream", required |-> <<"uri">>, decorated |-> TRUE,
                                      allow |-> <<"uri", "keepAlive", "localStreamName", "targetStreamName", "targetStreamType", "tcUrl", "pageUrl", "swfUrl", "ttl", "tos", "emulateUserAgent", "rtmpAbsoluteTimestamps", "sendChunkSizeRequest", "useSourcePts">>, varkw |-> TRUE] @@
    "create_hls_stream"            :> [command |-> "createhlsstream", required |-> <<"localStreamNames", "targetFolder">>, decorated |-> TRUE,
                                      allow |-> <<"localStreamNames", "targetFolder", "keepAlive", "overwriteDestination", "staleRetentionCount", "createMasterPlaylist", "cleanupDestination", "bandwidths", "groupName", "playlistType", "playlistLength", "playlistName", "chunkLength", "maxChunkLength", "chunkBaseName", "chunkOnIDR", "drmType", "AESKeyCount", "audioOnly", "hlsResume", "cleanupOnClose", "useByteRange", "fileLength", "useSystemTime", "offsetTime", "startOffset">>, varkw |-> TRUE] @@
    "create_hds_stream"            :> [command |-> "createhdsstream", required |-> <<"localStreamNames", "targetFolder">>, decorated |-> TRUE,
                                      allow |-> <<"localStreamNames", "targetFolder", "bandwidths", "chunkBaseName", "chunkLength", "chunkOnIDR", "groupName", "keepAlive", "manifestName", "overwriteDestination", "playlistType", "playlistLength", "staleRetentionCount", "createMasterPlaylist", "cleanupDestination">>, varkw |-> TRUE] @@
    "create_mss_stream"            :> [command |-> "createmssstream", required |-> <<"localStreamNames", "targetFolder">>, decorated |-> TRUE,
                                      allow |-> <<"localStreamNames", "targetFolder", "bandwidths", "groupName", "playlistType", "playlistLength", "manifestName", "chunkLength", "chunkOnIDR", "keepAlive", "overwriteDestination", "staleRetentionCount", "cleanupDestination", "ismType", "isLive", "publishingPoint", "ingestMode">>, varkw |-> TRUE] @@
    "create_dash_stream"           :> [command |-> "createdashstream", required |-> <<"localStreamNames", "targetFolder">>, decorated |-> TRUE,
                                      allow |-> <<"localStreamNames", "targetFolder", "bandwidths", "groupName", "playlistType", "playlistLength", "manifestName", "chunkLength", "chunkOnIDR", "keepAlive", "overwriteDestination", "staleRetentionCount", "cleanupDestination", "dynamicProfile">>, varkw |-> TRUE] @@
    "record"                       :> [command |-> "record", required |-> <<"localStreamName", "pathToFile">>, decorated |-> TRUE,
                                      allow |-> <<"localStreamName", "pathToFile", "type", "overwrite", "keepAlive", "chunkLength", "waitForIDR", "winQtCompat", "dateFolderStructure">>, varkw |-> TRUE] @@
    "transcode"                    :> [command |-> "transcode", required |-> <<"source", "destinations">>, decorated |-> TRUE,
                                      allow |-> <<"source", "destinations", "targetStreamNames", "groupName", "videoBitrates", "videoSizes", "videoAdvancedParamsProfiles", "audioBitrates", "audioChannelsCounts", "audioFrequencies", "audioAdvancedParamsProfiles", "overlays", "croppings", "keepAlive", "commandFlags">>, varkw |-> TRUE] @@
    "list_streams_ids"             :> [command |-> "listStreamsIds", required |-> <<>>, decorated |-> FALSE,
                                      allow |-> <<>>, varkw |-> FALSE] @@
    "get_stream_info"              :> [command |-> "getStreamInfo", required |-> <<>>, decorated |-> TRUE,
                                      allow |-> <<"id", "localStreamName">>, varkw |-> TRUE] @@
    "list_streams"                 :> [command |-> "listStreams", required |-> <<>>, decorated |-> TRUE,
                                      allow |-> <<"disableInternalStreams">>, varkw |-> TRUE] @@
    "get_streams_count"            :> [command |-> "getStreamsCount", required |-> <<>>, decorated |-> FALSE,
                                      allow |-> <<>>, varkw |-> FALSE] @@
    "shutdown_stream"              :> [command |-> "shutdownStream", required |-> <<>>, decorated |-> TRUE,
                                      allow |-> <<"id", "localStreamName", "permanently">>, varkw |-> TRUE] @@
    "list_config"                  :> [command |-> "listConfig", required |-> <<>>, decorated |-> FALSE,
                                      allow |-> <<>>, varkw |-> FALSE] @@
    "remove_config"                :> [command |-> "removeConfig", required |-> <<>>, decorated |-> TRUE,
                                      allow |-> <<"id", "groupName", "removeHlsHdsFiles">>, varkw |-> TRUE] @@
    "get_config_info"              :> [command |-> "getConfigInfo", required |-> <<"id">>, decorated |-> TRUE,
                                      allow |-> <<"id">>, varkw |-> FALSE] @@
    "is_stream_running"            :> [command |-> "isStreamRunning", required |-> <<>>, decorated |-> TRUE,
                                      allow |-> <<"id", "localStreamName">>, varkw |-> TRUE] @@
    "add_stream_alias"             :> [command |-> "addStreamAlias", required |-> <<"localStreamName", "aliasName">>, decorated |-> TRUE,
                                      allow |-> <<"localStreamName", "aliasName", "expirePeriod">>, varkw |-> TRUE] @@
    "list_stream_aliases"          :> [command |-> "listStreamAliases", required |-> <<>>, decorated |-> FALSE,
                                      allow |-> <<>>, varkw |-> FALSE] @@
    "remove_stream_alias"          :> [command |-> "removeStreamAlias", required |-> <<"aliasName">>, decorated |-> TRUE,
                                      allow |-> <<"aliasName">>, varkw |-> FALSE] @@
    "flush_stream_aliases"         :> [command |-> "flushStreamAliases", required |-> <<>>, decorated |-> FALSE,
                                      allow |-> <<>>, varkw |-> FALSE] @@
    "add_group_name_alias"         :> [command |-> "addGroupNameAlias", required |-> <<"groupName", "aliasName">>, decorated |-> TRUE,
                                      allow |-> <<"groupName", "aliasName">>, varkw |-> FALSE] @@
    "flush_group_name_aliases"     :> [command |-> "flushGroupNameAliases", required |-> <<>>, decorated |-> FALSE,
                                      allow |-> <<>>, varkw |-> FALSE] @@
    "get_group_name_by_alias"      :> [command |-> "getGroupNameByAlias", required |-> <<"aliasName">>, decorated |-> TRUE,
                                      allow |-> <<"aliasName">>, varkw |-> FALSE] @@
    "list_group_name_aliases"      :> [command |-> "listGroupNameAliases", required |-> <<>>, decorated |-> FALSE,
                                      allow |-> <<>>, varkw |-> FALSE] @@
    "remove_group_name_alias"      :> [command |-> "removeGroupNameAlias", required |-> <<"aliasName">>, decorated |-> TRUE,
                                      allow |-> <<"aliasName">>, varkw |-> FALSE] @@
    "list_http_streaming_sessions" :> [command |-> "listHttpStreamingSessions", required |-> <<>>, decorated |-> FALSE,
                                      allow |-> <<>>, varkw |-> FALSE] @@
    "create_ingest_point"          :> [command |-> "createIngestPoint", required |-> <<"privateStreamName", "publicStreamName">>, decorated |-> TRUE,
                                      allow |-> <<"privateStreamName", "publicStreamName">>, varkw |-> FALSE] @@
    "remove_ingest_point"          :> [command |-> "removeIngestPoint", required |-> <<"privateStreamName">>, decorated |-> TRUE,
                                      allow |-> <<"privateStreamName">>, varkw |-> FALSE] @@
    "list_ingest_points"           :> [command |-> "listIngestPoints", required |-> <<>>, decorated |-> FALSE,
                                      allow |-> <<>>, varkw |-> FALSE] @@
    "start_web_rtc"                :> [command |-> "startwebrtc", required |-> <<"ersip", "ersport", "roomId">>, decorated |-> FALSE,
                                      allow |-> <<>>, varkw |-> FALSE]

OpNames == DOMAIN Ops

Range(f) == {f[i] : i \in DOMAIN f}

\* @expected(*expected_keys): the first keyword outside the allow-list
\* raises EvoStreamException naming it, before the method body runs
expected(expected_keys, kwargs) ==
    IF \E i \in 1..Len(kwargs) : kwargs[i][1] \notin Range(expected_keys)
      THEN LET i == CHOOSE i \in 1..Len(kwargs) :
                      /\ kwargs[i][1] \notin Range(expected_keys)
                      /\ \A j \in 1..(i - 1) : kwargs[j][1] \in Range(expected_keys)
           IN Raise("EvoStreamException", PyStr(kwargs[i][1]))
      ELSE Return(PyNone)

\* a method body passing **kwargs before its required arguments
bind_kwargs_first(op, args, kwargs) ==
    LET required == Ops[op].required
        n == Len(required)
    IN IF Len(args) > n
         THEN Raise("TypeError", PyStr("too many positional arguments"))
       ELSE IF \E i \in 1..Len(args) : HasKey(kwargs, required[i])
         THEN Raise("TypeError", PyStr("got multiple values for argument"))
       ELSE IF ~Ops[op].varkw /\ \E i \in 1..Len(kwargs) : kwargs[i][1] \notin Range(required)
         THEN Raise("TypeError", PyStr("got an unexpected keyword argument"))
       ELSE IF \E i \in (Len(args) + 1)..n : ~HasKey(kwargs, required[i])
         THEN Raise("TypeError", PyStr("missing required positional argument"))
       ELSE Return(SelectSeq(kwargs, LAMBDA kv : kv[1] \notin Range(required))
                   \o [i \in 1..n |->
                        <<required[i],
                          IF i <= Len(args) THEN args[i] ELSE Lookup(kwargs, required[i])>>])

\* a method body that forgets **kwargs in its call of execute
bind_drops_kwargs(op, args, kwargs) ==
    LET required == Ops[op].required
        n == Len(required)
    IN IF Len(args) > n
         THEN Raise("TypeError", PyStr("too many positional arguments"))
       ELSE IF \E i \in 1..Len(args) : HasKey(kwargs, required[i])
         THEN Raise("TypeError", PyStr("got multiple values for argument"))
       ELSE IF ~Ops[op].varkw /\ \E i \in 1..Len(kwargs) : kwargs[i][1] \notin Range(required)
         THEN Raise("TypeError", PyStr("got an unexpected keyword argument"))
       ELSE IF \E i \in (Len(args) + 1)..n : ~HasKey(kwargs, required[i])
         THEN Raise("TypeError", PyStr("missing required positional argument"))
       ELSE Return([i \in 1..n |->
                      <<required[i],
                        IF i <= Len(args) THEN args[i] ELSE Lookup(kwargs, required[i])>>])

\* Python's binding of a call f(*args, **kwargs) to the signature
\* def f(self, <required>[, **kwargs]), followed by the method body's
\* execute(command, r1=r1, ..., **kwargs): the parameter dict handed
\* to the transport, or TypeError
bind(op, args, kwargs) ==
    LET required == Ops[op].required
        n == Len(required)
    IN IF Len(args) > n
         THEN Raise("TypeError", PyStr("too many positional arguments"))
       ELSE IF \E i \in 1..Len(args) : HasKey(kwargs, required[i])
         THEN Raise("TypeError", PyStr("got multiple values for argument"))
       ELSE IF ~Ops[op].varkw /\ \E i \in 1..Len(kwargs) : kwargs[i][1] \notin Range(required)
         THEN Raise("TypeError", PyStr("got an unexpected keyword argument"))
       ELSE IF \E i \in (Len(args) + 1)..n : ~HasKey(kwargs, required[i])
         THEN Raise("TypeError", PyStr("missing required positional argument"))
       ELSE Return([i \in 1..n |->
                      <<required[i],
                        IF i <= Len(args) THEN args[i] ELSE Lookup(kwargs, required[i])>>]
                   \o SelectSeq(kwargs, LAMBDA kv : kv[1] \notin Range(required)))

\* a facade method whose allow-list is never consulted
facade_unchecked(op, args, kwargs) == bind(op, args, kwargs)

\* a facade method whose allow-list holds the optional names only
facade_checks_optional_only(op, args, kwargs) ==
    LET optional == SelectSeq(Ops[op].allow, LAMBDA k : k \notin Range(Ops[op].required))
        checked == IF Ops[op].decorated THEN expected(optional, kwargs)
                   ELSE Return(PyNone)
    IN IF ~checked.ok THEN checked ELSE bind(op, args, kwargs)

\* a facade method up to its call of self.protocol.execute
facade(op, args, kwargs) ==
    LET checked == IF Ops[op].decorated THEN expected(Ops[op].allow, kwargs)
                   ELSE Return(PyNone)
    IN IF ~checked.ok THEN checked ELSE bind(op, args, kwargs)

----------------------------------------------------------------------------
(* Inputs of the model                                                     *)

\* most optional keyword names of an allow-list that the callers try
MaxOptKeys == 1
\* the same in the runs that explore the request encoding
MaxUriOptKeys == 2

\* argument values of the callers
Values == {PyStr("1"), PyInt(2), PyStr("~")}

\* argument values of the callers in the runs that explore the encoding
UriValues == {PyStr("1"), PyInt(1), PyStr("2"), PyStr("1 localStreamName=2"), PyStr("~")}

\* the operations called in the runs that explore the encoding
UriOps == {"get_stream_info", "pull_stream"}

\* the parameter dicts of the callers that use the transport directly,
\* api.protocol.execute(command, **params): a key outside ASCII among them
DirectKeys == {"id", "~"}
DirectValues == {PyStr("1"), PyStr("~")}

\* the threads that share one client, their operations and values
MaxThreads == 2
Threads == 1..MaxThreads
\* the connection objects that can be alive at once: one per thread
Conns == 1..MaxThreads
\* the calls the threads make: two that reach the server, one that the
\* allow-list rejects and one whose value cannot be encoded
ThreadCalls == {<<"list_streams", <<>>, <<>>>>,
                <<"get_stream_info", <<>>, << <<"id", PyStr("1")>> >> >>,
                <<"get_stream_info", <<>>, << <<"bogus", PyStr("1")>> >> >>,
                <<"get_stream_info", <<>>, << <<"id", PyStr("~")>> >> >>}
ThreadFailures == {<<"connect", "ConnectionRefusedError">>, <<"write", "ConnectionResetError">>}
ThreadBodies == {BodyOkScalar, BodyFail}

SeqsUpTo(S, n) == UNION {[1..k -> S] : k \in 0..n}

\* the keyword names tried on an operation: its required names, the first
\* optional names of its allow-list, and a name no allow-list has
OptionalNames(op) == SelectSeq(Ops[op].allow, LAMBDA k : k \notin Range(Ops[op].required))

KwNames(op, n) ==
    Range(Ops[op].required)
      \cup {OptionalNames(op)[i] : i \in 1..(IF Len(OptionalNames(op)) < n
                                             THEN Len(OptionalNames(op)) ELSE n)}
      \cup {"bogus"}

\* keyword arguments: at most n pairs with distinct names, in call order
KwSeqs(names, values, n) ==
    {kw \in SeqsUpTo(names \X values, n) :
        \A i, j \in 1..Len(kw) : i # j => kw[i][1] # kw[j][1]}

\* what the network does to conn.request (which connects, then writes),
\* and to conn.getresponse and response.read (which read)
SocketErrors == {"ConnectionRefusedError", "gaierror", "timeout", "ConnectionResetError"}
ConnectErrors == {"ConnectionRefusedError", "gaierror", "timeout"}
WriteErrors == {"ConnectionResetError", "timeout"}
ReadErrors == {"ConnectionResetError", "timeout"}
\* errors of http.client that are no socket errors
HTTPErrors == {"BadStatusLine", "IncompleteRead"}
RequestFailures == ({"connect"} \X ConnectErrors) \cup ({"write"} \X WriteErrors)
StatusCodes == {200, 404, 500}

----------------------------------------------------------------------------
(* State                                                                   *)

VARIABLES
    protocol,   \* class of self.protocol, "None" while no client exists
    hostname,   \* self.protocol.hostname
    port,       \* self.protocol.port
    pc,         \* position of the caller's thread
    call,       \* the call in progress: URI or operation, args, kwargs
    command,    \* command given to execute
    params,     \* parameter dict given to execute
    uri,        \* request URI built by make_uri
    conn,       \* the HTTPConnection of the call
    response,   \* status code and body of the HTTP response
    outcome,    \* what the call returned or raised
    trace,      \* the steps of the call, in the order they ran
    sends,      \* conn.request invocations of the call
    threads,    \* the locals of each thread that calls the shared client
    net         \* the connections of those threads and what went over them

vars == <<protocol, hostname, port, pc, call, command, params, uri, conn,
          response, outcome, trace, sends, threads, net>>

\* the state of the calls of concurrent threads
tvars == <<threads, net>>

\* the state of the call of the single caller
cvars == <<pc, call, command, params, uri, conn, response, outcome, trace, sends>>

client == <<protocol, hostname, port>>

NoCall == [kind |-> "none"]
NoResponse == [status |-> 0, body |-> ""]
Pending == [ok |-> FALSE, exc |-> PyNone]

\* a thread between calls, and a connection slot no object occupies
NoThread == [pc |-> "idle", call |-> NoCall, command |-> "", params |-> <<>>,
             uri |-> "", conn |-> 0, body |-> "", outcome |-> Pending, last |-> ""]
NoConn == [state |-> "free", request |-> "", reply |-> ""]

NoThreads ==
    /\ threads = [t \in Threads |-> NoThread]
    /\ net = [c \in Conns |-> NoConn]

\* the thread is between calls and nothing of the last call remains
Idle ==
    /\ pc = "idle"
    /\ call = NoCall
    /\ command = ""
    /\ params = <<>>
    /\ uri = ""
    /\ conn = "none"
    /\ response = NoResponse
    /\ outcome = Pending
    /\ trace = <<>>
    /\ sends = 0

Init ==
    /\ protocol = "None"
    /\ hostname = ""
    /\ port = PyNone
    /\ Idle
    /\ NoThreads

\* a client built from "http://ems:7777", between calls
InitUri ==
    /\ protocol = "HTTPProtocol"
    /\ hostname = "ems"
    /\ port = PyInt(7777)
    /\ Idle
    /\ NoThreads

Finish(result) ==
    /\ pc' = "done"
    /\ outcome' = result

----------------------------------------------------------------------------
(* Actions                                                                 *)

\* a lookup that falls back to the HTTP transport on an unknown scheme
scheme_class_default(scheme) ==
    IF scheme \in DOMAIN SCHEMES THEN Return(SCHEMES[scheme])
    ELSE Return(SCHEMES["http"])

\* get_module_class(SCHEMES[url.scheme]); KeyError on an unknown scheme
scheme_class(scheme) ==
    IF scheme \in DOMAIN SCHEMES THEN Return(SCHEMES[scheme])
    ELSE Raise("KeyError", PyStr(scheme))

\* Api.__init__(uri)
Api_init(u) ==
    /\ pc = "idle"
    /\ call' = [kind |-> "init", uri |-> u]
    /\ trace' = <<"__init__">>
    /\ LET url == urlparse(u)
           protocol_class == scheme_class(url.scheme)
       IN IF ~protocol_class.ok
            THEN /\ Finish(Raise("EvoStreamException",
                                 PyStr("Invalid uri \"" \o u \o "\"")))
                 /\ UNCHANGED client
            ELSE /\ protocol' = protocol_class.value
                 /\ hostname' = url.hostname
                 /\ port' = url.port
                 /\ Finish(Return(PyNone))
    /\ UNCHANGED <<command, params, uri, conn, response, sends>>

\* a facade method of Api, up to its call of self.protocol.execute
Call(op, args, kwargs) ==
    /\ pc = "idle"
    /\ protocol # "None"
    /\ call' = [kind |-> "call", op |-> op, args |-> args, kwargs |-> kwargs]
    /\ LET bound == facade(op, args, kwargs)
       IN IF ~bound.ok
            THEN /\ Finish(bound)
                 /\ trace' = <<op>>
                 /\ UNCHANGED <<command, params>>
            ELSE /\ pc' = "execute"
                 /\ command' = Ops[op].command
                 /\ params' = bound.value
                 /\ trace' = <<op, "execute">>
                 /\ UNCHANGED outcome
    /\ UNCHANGED <<client, uri, conn, response, sends>>

\* BaseProtocol.execute(command, **params) called on the transport of
\* the client, without a facade method
Protocol_execute(cmd, prms) ==
    /\ pc = "idle"
    /\ protocol # "None"
    /\ call' = [kind |-> "execute", command |-> cmd, params |-> prms]
    /\ pc' = "execute"
    /\ command' = cmd
    /\ params' = prms
    /\ trace' = <<"execute">>
    /\ UNCHANGED <<client, uri, conn, response, outcome, sends>>

\* a TelnetProtocol that inherits the HTTP get_result
get_result_telnet_as_http(protocol_class, port_value, cmd, prms) ==
    IF port_value.t # "int"
      THEN Raise("TypeError", PyStr("%d format: a number is required"))
    ELSE make_uri(cmd, prms)

\* get_result of the client's transport, up to its first network call:
\* TelnetProtocol.get_result raises; HTTPProtocol.get_result formats
\* "%s:%d" % (hostname, port) for the connection object and builds the URI
get_result(protocol_class, port_value, cmd, prms) ==
    IF protocol_class = "TelnetProtocol"
      THEN Raise("NotImplementedError", PyStr("Telnet protocol is not implemented"))
    ELSE IF port_value.t # "int"
      THEN Raise("TypeError", PyStr("%d format: a number is required"))
    ELSE make_uri(cmd, prms)

\* a get_result that keeps "host:port" in self.hostname
Execute_rewrites_hostname ==
    /\ pc = "execute"
    /\ trace' = Append(trace, "get_result")
    /\ LET built == get_result(protocol, port, command, params)
       IN /\ conn' = IF protocol = "HTTPProtocol" /\ port.t = "int"
                       THEN "created" ELSE conn
          /\ hostname' = IF protocol = "HTTPProtocol" /\ port.t = "int"
                           THEN hostname \o ":" \o format(port) ELSE hostname
          /\ IF ~built.ok
               THEN /\ Finish(built)
                    /\ UNCHANGED uri
               ELSE /\ uri' = built.value
                    /\ pc' = "request"
                    /\ UNCHANGED outcome
    /\ UNCHANGED <<protocol, port, call, command, params, response, sends>>

\* BaseProtocol.execute entering self.get_result(command, **params)
Execute ==
    /\ pc = "execute"
    /\ trace' = Append(trace, "get_result")
    /\ LET built == get_result(protocol, port, command, params)
       IN /\ conn' = IF protocol = "HTTPProtocol" /\ port.t = "int"
                       THEN "created" ELSE conn
          /\ IF ~built.ok
               THEN /\ Finish(built)
                    /\ UNCHANGED uri
               ELSE /\ uri' = built.value
                    /\ pc' = "request"
                    /\ UNCHANGED outcome
    /\ UNCHANGED <<client, call, command, params, response, sends>>

\* a request that is tried a second time after a socket error
Request_retries(failure) ==
    /\ pc = "request"
    /\ trace' = Append(trace, "request")
    /\ sends' = sends + 1
    /\ IF failure = <<>>
         THEN /\ conn' = "open"
              /\ pc' = "getresponse"
              /\ UNCHANGED outcome
         ELSE IF sends = 0
           THEN /\ conn' = "created"
                /\ UNCHANGED <<pc, outcome>>
           ELSE /\ conn' = IF failure[1] = "connect" THEN "created" ELSE "open"
                /\ Finish(Raise("EvoStreamException", PyExc(failure[2], PyStr(failure[1]))))
    /\ UNCHANGED <<client, call, command, params, uri, response>>

\* conn.request('GET', uri): connects and writes the request; a socket
\* error is caught and raised again as EvoStreamException(ex)
Request(failure) ==
    /\ pc = "request"
    /\ trace' = Append(trace, "request")
    /\ sends' = sends + 1
    /\ IF failure = <<>>
         THEN /\ conn' = "open"
              /\ pc' = "getresponse"
              /\ UNCHANGED outcome
         ELSE /\ conn' = IF failure[1] = "connect" THEN "created" ELSE "open"
              /\ Finish(Raise("EvoStreamException", PyExc(failure[2], PyStr(failure[1]))))
    /\ UNCHANGED <<client, call, command, params, uri, response>>

\* a getresponse followed by a check of the status code, which raises
\* on every status other than 200
GetResponse_checks_status(status, err) ==
    /\ pc = "getresponse"
    /\ trace' = Append(trace, "getresponse")
    /\ IF err = "none" /\ status = 200
         THEN /\ response' = [status |-> status, body |-> ""]
              /\ pc' = "read"
              /\ UNCHANGED outcome
         ELSE /\ Finish(Raise(IF err = "none" THEN "EvoStreamException" ELSE err,
                              PyStr("getresponse")))
              /\ UNCHANGED response
    /\ UNCHANGED <<client, call, command, params, uri, conn, sends>>

\* conn.getresponse(): reads the status line and the headers
GetResponse(status, err) ==
    /\ pc = "getresponse"
    /\ trace' = Append(trace, "getresponse")
    /\ IF err = "none"
         THEN /\ response' = [status |-> status, body |-> ""]
              /\ pc' = "read"
              /\ UNCHANGED outcome
         ELSE /\ Finish(Raise(err, PyStr("getresponse")))
              /\ UNCHANGED response
    /\ UNCHANGED <<client, call, command, params, uri, conn, sends>>

\* response.read(): reads the body, which get_result returns. The code
\* never calls conn.close(): once get_result has returned, the
\* connection object is unreachable and its socket is closed whenever the
\* runtime collects it (or was closed by http.client on a response with
\* Connection: close); after an exception the traceback keeps it alive.
Read(body, err) ==
    /\ pc = "read"
    /\ trace' = Append(trace, "read")
    /\ IF err = "none"
         THEN /\ response' = [response EXCEPT !.body = body]
              /\ pc' = "parse_result"
              /\ conn' \in {"open", "closed"}
              /\ UNCHANGED outcome
         ELSE /\ Finish(Raise(err, PyStr("read")))
              /\ UNCHANGED <<response, conn>>
    /\ UNCHANGED <<client, call, command, params, uri, sends>>

\* BaseProtocol.execute: return self.parse_result(result)
ParseResult ==
    /\ pc = "parse_result"
    /\ trace' = Append(trace, "parse_result")
    /\ Finish(parse_result(response.body))
    /\ UNCHANGED <<client, call, command, params, uri, conn, response, sends>>

\* the caller has the result or the exception; the locals of the call go
Done ==
    /\ pc = "done"
    /\ pc' = "idle"
    /\ call' = NoCall
    /\ command' = ""
    /\ params' = <<>>
    /\ uri' = ""
    /\ conn' = "none"
    /\ response' = NoResponse
    /\ outcome' = Pending
    /\ trace' = <<>>
    /\ sends' = 0
    /\ UNCHANGED client

\* an HTTPConnection object that all calls share
HTTPConnection_shared(n) == 1

\* HTTPConnection(...): a new object, distinct from every live connection
HTTPConnection(n) ==
    CHOOSE c \in DOMAIN n :
        /\ n[c].state = "free"
        /\ \A d \in DOMAIN n : n[d].state = "free" => c <= d

\* a facade method of Api called by thread t
T_Call(t, op, args, kwargs) ==
    /\ threads[t].pc = "idle"
    /\ protocol # "None"
    /\ LET bound == facade(op, args, kwargs)
           called == [kind |-> "call", op |-> op, args |-> args, kwargs |-> kwargs]
       IN threads' = [threads EXCEPT ![t] =
            IF ~bound.ok
              THEN [@ EXCEPT !.call = called, !.pc = "done", !.outcome = bound,
                             !.last = "call"]
              ELSE [@ EXCEPT !.call = called, !.pc = "execute", !.last = "call",
                             !.command = Ops[op].command, !.params = bound.value]]
    /\ UNCHANGED <<client, cvars, net>>

\* thread t in BaseProtocol.execute entering self.get_result
T_Execute(t) ==
    /\ threads[t].pc = "execute"
    /\ LET built == get_result(protocol, port, threads[t].command, threads[t].params)
           created == protocol = "HTTPProtocol" /\ port.t = "int"
           c == IF created THEN HTTPConnection(net) ELSE 0
       IN /\ net' = IF created THEN [net EXCEPT ![c] = [NoConn EXCEPT !.state = "created"]]
                    ELSE net
          /\ threads' = [threads EXCEPT ![t] =
               IF ~built.ok
                 THEN [@ EXCEPT !.conn = c, !.pc = "done", !.outcome = built,
                                !.last = "get_result"]
                 ELSE [@ EXCEPT !.conn = c, !.pc = "request", !.uri = built.value,
                                !.last = "get_result"]]
    /\ UNCHANGED <<client, cvars>>

\* thread t in conn.request('GET', uri)
T_Request(t, failure) ==
    /\ threads[t].pc = "request"
    /\ LET c == threads[t].conn IN
       IF failure = <<>>
         THEN /\ net' = [net EXCEPT ![c].state = "open", ![c].request = threads[t].uri]
              /\ threads' = [threads EXCEPT ![t].pc = "getresponse",
                                            ![t].last = "request"]
         ELSE /\ net' = [net EXCEPT ![c].state = IF failure[1] = "connect"
                                                   THEN "created" ELSE "open"]
              /\ threads' = [threads EXCEPT
                   ![t].pc = "done",
                   ![t].last = "request",
                   ![t].outcome = Raise("EvoStreamException",
                                        PyExc(failure[2], PyStr(failure[1])))]
    /\ UNCHANGED <<client, cvars>>

\* the server answers the request it received on connection c
Server_Reply(c, body) ==
    /\ net[c].state = "open"
    /\ net[c].request # ""
    /\ net[c].reply = ""
    /\ net' = [net EXCEPT ![c].reply = body]
    /\ UNCHANGED <<client, cvars, threads>>

\* thread t in conn.getresponse(): blocks until the reply is there
T_GetResponse(t, err) ==
    /\ threads[t].pc = "getresponse"
    /\ IF err = "none"
         THEN /\ net[threads[t].conn].reply # ""
              /\ threads' = [threads EXCEPT ![t].pc = "read", ![t].last = "getresponse"]
         ELSE threads' = [threads EXCEPT ![t].pc = "done",
                                         ![t].last = "getresponse",
                                         ![t].outcome = Raise(err, PyStr("getresponse"))]
    /\ UNCHANGED <<client, cvars, net>>

\* thread t in response.read()
T_Read(t, err) ==
    /\ threads[t].pc = "read"
    /\ IF err = "none"
         THEN threads' = [threads EXCEPT ![t].pc = "parse_result",
                                         ![t].last = "read",
                                         ![t].body = net[threads[t].conn].reply]
         ELSE threads' = [threads EXCEPT ![t].pc = "done",
                                         ![t].last = "read",
                                         ![t].outcome = Raise(err, PyStr("read"))]
    /\ UNCHANGED <<client, cvars, net>>

\* thread t in BaseProtocol.execute: return self.parse_result(result)
T_ParseResult(t) ==
    /\ threads[t].pc = "parse_result"
    /\ threads' = [threads EXCEPT ![t].pc = "done",
                                  ![t].last = "parse_result",
                                  ![t].outcome = parse_result(threads[t].body)]
    /\ UNCHANGED <<client, cvars, net>>

\* the caller in thread t has the result or the exception; the locals of
\* the call go, and its connection object with them
T_Done(t) ==
    /\ threads[t].pc = "done"
    /\ threads' = [threads EXCEPT ![t] = NoThread]
    /\ net' = IF threads[t].conn = 0 THEN net
              ELSE [net EXCEPT ![threads[t].conn] = NoConn]
    /\ UNCHANGED <<client, cvars>>

----------------------------------------------------------------------------
(* Specifications                                                          *)

Next ==
    \/ /\ \E u \in URIs : Api_init(u)
       /\ UNCHANGED tvars
    \/ /\ pc = "idle"
       /\ \E op \in OpNames, args \in SeqsUpTo(Values, MaxArgs) :
            \E kwargs \in KwSeqs(KwNames(op, MaxOptKeys), Values, MaxKw) :
              Call(op, args, kwargs)
       /\ UNCHANGED tvars
    \/ /\ Execute
       /\ UNCHANGED tvars
    \/ /\ \E failure \in RequestFailures \cup {<<>>} : Request(failure)
       /\ UNCHANGED tvars
    \/ /\ \E status \in StatusCodes, err \in ReadErrors \cup {"BadStatusLine", "none"} :
            GetResponse(status, err)
       /\ UNCHANGED tvars
    \/ /\ \E body \in Bodies, err \in ReadErrors \cup {"IncompleteRead", "none"} :
            Read(body, err)
       /\ UNCHANGED tvars
    \/ /\ ParseResult
       /\ UNCHANGED tvars
    \/ /\ Done
       /\ UNCHANGED tvars

Spec == Init /\ [][Next]_vars

\* the request encoding on arbitrary values: an HTTP client whose server
\* refuses every connection
NextUri ==
    \/ /\ pc = "idle"
       /\ \E op \in UriOps, args \in SeqsUpTo(UriValues, 1) :
            \E kwargs \in KwSeqs(KwNames(op, MaxUriOptKeys), UriValues, MaxUriKw) :
              Call(op, args, kwargs)
       /\ UNCHANGED tvars
    \/ /\ pc = "idle"
       /\ \E prms \in KwSeqs(DirectKeys, DirectValues, MaxUriKw) :
            Protocol_execute("getStreamInfo", prms)
       /\ UNCHANGED tvars
    \/ /\ Execute
       /\ UNCHANGED tvars
    \/ /\ Request(<<"connect", "ConnectionRefusedError">>)
       /\ UNCHANGED tvars
    \/ /\ Done
       /\ UNCHANGED tvars

SpecUri == InitUri /\ [][NextUri]_vars

\* threads calling one HTTP client concurrently: every step of a thread
\* and every reply of the server interleaves with the steps of the others
NextThreads ==
    \/ \E t \in Threads, c \in ThreadCalls : T_Call(t, c[1], c[2], c[3])
    \/ \E t \in Threads : T_Execute(t)
    \/ \E t \in Threads, failure \in ThreadFailures \cup {<<>>} : T_Request(t, failure)
    \/ \E c \in Conns, body \in ThreadBodies : Server_Reply(c, body)
    \/ \E t \in Threads, err \in {"timeout", "none"} : T_GetResponse(t, err)
    \/ \E t \in Threads, err \in {"IncompleteRead", "none"} : T_Read(t, err)
    \/ \E t \in Threads : T_ParseResult(t)
    \/ \E t \in Threads : T_Done(t)

SpecThreads == InitUri /\ [][NextThreads]_vars

----------------------------------------------------------------------------
(* Properties                                                              *)

Last(q) == q[Len(q)]

\* a facade call is in progress or has just ended
InCall == call.kind = "call"

\* the call has ended and the caller holds its outcome
Ended == pc = "done"

Raised(type) == Ended /\ ~outcome.ok /\ outcome.exc.type = type

\* the response body went through the decoder
Decoded == Ended /\ Len(trace) > 0 /\ Last(trace) = "parse_result"

\* the parsed body is an object that has field k
BodyHas(k) ==
    /\ json_loads(response.body).ok
    /\ json_loads(response.body).value.t = "dict"
    /\ HasKey(json_loads(response.body).value.pairs, k)

BodyField(k) == Lookup(json_loads(response.body).value.pairs, k)

\* the names an operation accepts as keywords: those its decorator
\* lists; for a method without decorator, the names of its signature
AllowList(op) == IF Ops[op].decorated THEN Range(Ops[op].allow)
                 ELSE Range(Ops[op].required)

UnknownKeyword ==
    /\ InCall
    /\ \E i \in 1..Len(call.kwargs) : call.kwargs[i][1] \notin AllowList(call.op)

\* C1: a call of any operation with a keyword name outside the
\* operation's allow-list ends at once with the domain error
\* (EvoStreamException), and the transport has sent nothing.
C1_UnknownKeywordIsDomainError ==
    UnknownKeyword => Raised("EvoStreamException") /\ sends = 0

\* C2: decoding a response whose status is "FAIL" never returns a
\* payload, and when the response carries its description the decoder
\* raises the domain error whose message is exactly that description.
C2_FailRaisesDescription ==
    (Decoded /\ BodyHas("status") /\ BodyField("status") = PyStr("FAIL")) =>
        /\ ~outcome.ok
        /\ BodyHas("description") =>
             /\ outcome.exc.type = "EvoStreamException"
             /\ outcome.exc.arg = BodyField("description")

C2_Witness ==
    /\ Decoded
    /\ response.body = BodyFail
    /\ outcome = Raise("EvoStreamException", PyStr("stream not found"))

\* C3: decoding a response whose status is "OK" and that carries data
\* returns that data unchanged, whatever its shape, and raises nothing.
C3_OkReturnsData ==
    (Decoded /\ BodyHas("status") /\ BodyField("status") = PyStr("OK")
             /\ BodyHas("data")) =>
        /\ outcome.ok
        /\ outcome.value = BodyField("data")

C3_Witness ==
    /\ Decoded
    /\ response.body = BodyOkCount
    /\ outcome = Return(PyDict(<< <<"count", PyInt(5)>> >>))

\* C4: no socket-level or HTTP-library error of an HTTP send reaches the
\* caller raw, at whichever stage it occurs; the caller sees the domain
\* error instead.
C4_SocketFailureIsDomainError ==
    (Ended /\ InCall /\ ~outcome.ok) =>
        outcome.exc.type \notin SocketErrors \cup HTTPErrors

\* the inverse of b64encode on well-formed input, and of ascii_encode
B64Value(c) == (CHOOSE i \in 1..64 : CharAt(B64Alphabet, i) = c) - 1

RECURSIVE b64decode(_)
b64decode(t) ==
    IF Len(t) < 4 THEN <<>>
    ELSE LET v1 == B64Value(CharAt(t, 1))
             v2 == B64Value(CharAt(t, 2))
         IN IF CharAt(t, 3) = "=" THEN <<v1 * 4 + v2 \div 16>>
            ELSE LET v3 == B64Value(CharAt(t, 3)) IN
                 IF CharAt(t, 4) = "="
                   THEN <<v1 * 4 + v2 \div 16, (v2 % 16) * 16 + v3 \div 4>>
                   ELSE <<v1 * 4 + v2 \div 16, (v2 % 16) * 16 + v3 \div 4,
                          (v3 % 4) * 64 + B64Value(CharAt(t, 4))>>
                        \o b64decode(SubSeq(t, 5, Len(t)))

chr(b) == IF b >= 97 THEN CharAt(AsciiHi, b - 96) ELSE CharAt(AsciiLo, b - 31)

RECURSIVE ascii_decode(_)
ascii_decode(b) == IF Len(b) = 0 THEN "" ELSE chr(b[1]) \o ascii_decode(Tail(b))

\* text t is the pairs of prms written key=value, in order, with exactly
\* one space between neighbours and nothing else
Piece(kv) == kv[1] \o "=" \o format(kv[2])

RECURSIVE Offset(_, _)
Offset(prms, i) == IF i = 1 THEN 0
                   ELSE Offset(prms, i - 1) + Len(Piece(prms[i - 1])) + 1

IsJoined(t, prms) ==
    /\ Len(prms) > 0
    /\ Len(t) = Offset(prms, Len(prms)) + Len(Piece(prms[Len(prms)]))
    /\ \A i \in 1..Len(prms) :
         SubSeq(t, Offset(prms, i) + 1, Offset(prms, i) + Len(Piece(prms[i]))) = Piece(prms[i])
    /\ \A i \in 1..(Len(prms) - 1) :
         CharAt(t, Offset(prms, i) + Len(Piece(prms[i])) + 1) = " "

\* make_uri has returned the request URI of the call
UriBuilt == uri # ""

UriPrefix == "/" \o command \o "?params="

\* the text that the params segment of the request URI decodes to
DecodedParams == ascii_decode(b64decode(SubSeq(uri, Len(UriPrefix) + 1, Len(uri))))

\* C5: the request URI is "/{command}" for an empty parameter mapping,
\* and otherwise "/{command}?params=" followed by the base64 encoding of
\* the key=value pairs joined by single spaces.
C5_MakeUriForm ==
    UriBuilt =>
      /\ params = <<>> => uri = "/" \o command
      /\ params # <<>> =>
           /\ Len(uri) > Len(UriPrefix)
           /\ (Len(uri) - Len(UriPrefix)) % 4 = 0
           /\ SubSeq(uri, 1, Len(UriPrefix)) = UriPrefix
           /\ IsJoined(DecodedParams, params)
      /\ (command = "getStreamInfo" /\ params = << <<"id", PyStr("1")>> >>)
           => uri = "/getStreamInfo?params=aWQ9MQ=="
      /\ (command = "getStreamInfo"
            /\ params = << <<"localStreamName", PyStr("2")>>, <<"id", PyInt(1)>> >>)
           => uri = "/getStreamInfo?params=bG9jYWxTdHJlYW1OYW1lPTIgaWQ9MQ=="

C5_Witness ==
    /\ command = "getStreamInfo"
    /\ params = << <<"id", PyStr("1")>>, <<"localStreamName", PyStr("2")>> >>
    /\ uri = "/getStreamInfo?params=aWQ9MSBsb2NhbFN0cmVhbU5hbWU9Mg=="

\* the arguments the caller supplied, required ones first in the order
\* of the signature, then the optional keywords in the order of the call
Supplied ==
    LET required == Ops[call.op].required IN
    [i \in 1..Len(required) |->
        <<required[i],
          IF i <= Len(call.args) THEN call.args[i] ELSE Lookup(call.kwargs, required[i])>>]
    \o SelectSeq(call.kwargs, LAMBDA kv : kv[1] \notin Range(required))

\* C6: decoding the params segment of the request URI gives back the
\* key=value pairs of every supplied argument, each exactly once, the
\* required arguments first and then the keywords in call order.
C6_ParamsRoundTrip ==
    (UriBuilt /\ InCall /\ Len(call.args) + Len(call.kwargs) > 0) =>
        /\ Len(Supplied) = Len(call.args) + Len(call.kwargs)
        /\ IsJoined(DecodedParams, Supplied)

C6_Witness ==
    /\ InCall
    /\ call.op = "pull_stream"
    /\ call.args = <<>>
    /\ call.kwargs = << <<"keepAlive", PyStr("2")>>, <<"uri", PyStr("1")>> >>
    /\ uri = "/pullStream?params=dXJpPTEga2VlcEFsaXZlPTI="
    /\ DecodedParams = "uri=1 keepAlive=2"

\* the body is no JSON text, or its document has no status field
Malformed == ~json_loads(response.body).ok \/ ~BodyHas("status")

\* C7: decoding a body that is no valid JSON or that lacks the status
\* field ends the call with a parse or lookup error that is not the
\* domain error; nothing between decoder and caller catches it.
C7_MalformedBodyRaisesParseError ==
    (Decoded /\ Malformed) =>
        /\ ~outcome.ok
        /\ outcome.exc.type # "EvoStreamException"
        /\ outcome.exc.type \in {"ValueError", "KeyError", "TypeError"}

C7_Witness ==
    /\ Decoded
    /\ response.body = BodyTruncated
    /\ Raised("ValueError")

\* the URIs of the model whose scheme is none of http and telnet
UnrecognizedURIs == {"ftp://host:21", ""}

Contains(t, sub) == \E i \in 1..(Len(t) - Len(sub) + 1) : SubSeq(t, i, i + Len(sub) - 1) = sub

\* C8: constructing a client from a URI with an unrecognized scheme
\* raises the domain error whose message contains the URI, creates no
\* transport object and does no network I/O.
C8_UnknownSchemeFailsConstruction ==
    [][(pc = "idle" /\ call'.kind = "init" /\ call'.uri \in UnrecognizedURIs) =>
         /\ pc' = "done"
         /\ ~outcome'.ok
         /\ outcome'.exc.type = "EvoStreamException"
         /\ outcome'.exc.arg.t = "str"
         /\ Contains(outcome'.exc.arg.s, call'.uri)
         /\ UNCHANGED client
         /\ sends' = 0
         /\ conn' = "none"]_vars

C8_Witness ==
    /\ Ended
    /\ call = [kind |-> "init", uri |-> "ftp://host:21"]
    /\ outcome = Raise("EvoStreamException", PyStr("Invalid uri \"ftp://host:21\""))
    /\ protocol = "None"

\* C9: a command issued on the telnet transport always ends with
\* NotImplementedError; the call does no network I/O and never reaches
\* the response decoder.
C9_TelnetNotImplemented ==
    (InCall /\ protocol = "TelnetProtocol") =>
        /\ sends = 0
        /\ conn = "none"
        /\ pc \in {"execute", "done"}
        /\ \A i \in 1..Len(trace) : trace[i] \notin {"request", "getresponse", "read", "parse_result"}
        /\ (Len(trace) > 2 /\ trace[3] = "get_result") =>
             /\ Raised("NotImplementedError")
             /\ Contains(outcome.exc.arg.s, "not implemented")

C9_Witness ==
    /\ InCall
    /\ protocol = "TelnetProtocol"
    /\ Len(params) > 0
    /\ trace = <<call.op, "execute", "get_result">>
    /\ Raised("NotImplementedError")

\* a facade method has passed validation and called execute
Executing == InCall /\ Len(trace) > 1 /\ trace[2] = "execute"

\* C10: a facade call that passes validation hands the transport the
\* fixed command name of its operation and exactly the supplied
\* arguments keyed by their names, and returns what the decoder returns.
C10_FacadePassThrough ==
    Executing =>
        /\ command = Ops[call.op].command
        /\ call.op = "pull_stream" => command = "pullStream"
        /\ call.op = "list_streams" => command = "listStreams"
        /\ call.op = "get_stream_info" => command = "getStreamInfo"
        /\ Len(params) = Len(call.args) + Len(call.kwargs)
        /\ \A i, j \in 1..Len(params) : i # j => params[i][1] # params[j][1]
        /\ \A i \in 1..Len(call.args) :
             /\ HasKey(params, Ops[call.op].required[i])
             /\ Lookup(params, Ops[call.op].required[i]) = call.args[i]
        /\ \A i \in 1..Len(call.kwargs) :
             /\ HasKey(params, call.kwargs[i][1])
             /\ Lookup(params, call.kwargs[i][1]) = call.kwargs[i][2]
        /\ Decoded => outcome = parse_result(response.body)

C10_Witness ==
    /\ Decoded
    /\ call = [kind |-> "call", op |-> "pull_stream", args |-> <<PyStr("1")>>,
               kwargs |-> << <<"keepAlive", PyInt(2)>> >>]
    /\ command = "pullStream"
    /\ params = << <<"uri", PyStr("1")>>, <<"keepAlive", PyInt(2)>> >>
    /\ outcome = Return(PyDict(<< <<"count", PyInt(5)>> >>))

\* the steps of a call that runs to the end, in order
FullTrace(op) == <<op, "execute", "get_result", "request", "getresponse", "read", "parse_result">>

IsPrefix(p, q) == Len(p) <= Len(q) /\ \A i \in 1..Len(p) : p[i] = q[i]

\* C11: a call ends either with a returned payload or with a raised
\* exception, never both and never neither; a payload is returned only
\* when validation passed, the transport delivered a body and the body
\* decoded with a status other than FAIL, and it is that body's data.
C11_PayloadOnlyOnSuccessPath ==
    /\ Ended => (outcome.ok \/ outcome.exc.t = "exc")
    /\ ~Ended => outcome = Pending
    /\ (Ended /\ InCall /\ outcome.ok) =>
         /\ ~UnknownKeyword
         /\ trace = FullTrace(call.op)
         /\ sends = 1
         /\ BodyHas("status")
         /\ BodyField("status") # PyStr("FAIL")
         /\ BodyHas("data")
         /\ outcome.value = BodyField("data")

C11_Witness ==
    /\ Ended
    /\ InCall
    /\ trace = FullTrace(call.op)
    /\ response.body = BodyOkList
    /\ outcome = Return(PyList(<<PyStr("a"), PyStr("b")>>))

\* the position of the thread after the first n steps of a call
PcAfter(n) == CASE n = 2 -> "execute"
                [] n = 3 -> "request"
                [] n = 4 -> "getresponse"
                [] n = 5 -> "read"
                [] n = 6 -> "parse_result"
                [] OTHER -> "done"

\* C12: the steps of a call run in the order validation, transport
\* send, response decoding, return or raise; a step that fails ends the
\* call, so no later step starts: the transport is not invoked after a
\* failed validation, nor the decoder after a failed transport.
C12_StepsInOrder ==
    [][/\ InCall' =>
            /\ IsPrefix(trace', FullTrace(call'.op))
            /\ Len(trace') >= 1
            /\ pc' # "done" => (pc' = PcAfter(Len(trace')) /\ outcome' = Pending)
            /\ (pc' = "done" /\ Len(trace') < 7) => ~outcome'.ok
            /\ UnknownKeyword' => trace' = <<call'.op>>
       /\ pc = "done" => (pc' = "idle" /\ trace' = <<>>)]_vars

C12_Witness ==
    /\ InCall
    /\ trace = <<"list_streams", "execute", "get_result", "request", "getresponse">>
    /\ Raised("timeout")

Count(q, x) == Cardinality({i \in 1..Len(q) : q[i] = x})

\* C13: a call that passes validation invokes the transport once, and
\* the HTTP transport sends one request for it, never a second one,
\* also when the send fails or the server answers FAIL; the step after
\* building the URI is always a send, and nothing of a finished call
\* remains that a later call could reuse.
C13_OneSendPerCall ==
    [][/\ InCall' =>
            /\ sends' <= 1
            /\ sends' = Count(trace', "request")
            /\ (Executing' /\ pc' # "execute") => Count(trace', "get_result") = 1
            /\ (UriBuilt' /\ pc' # "request") => sends' = 1
       /\ pc = "request" => sends' = sends + 1
       /\ pc' = "idle" => Idle']_vars

C13_Witness ==
    /\ Decoded
    /\ response.body = BodyFail
    /\ Raised("EvoStreamException")
    /\ sends = 1

\* C14: no step of a facade call changes the client's transport
\* variant, hostname or port, whatever the outcome; only constructing a
\* client sets them; between calls the client holds nothing else.
C14_ClientUnchangedByCalls ==
    [][/\ ~(pc = "idle" /\ call'.kind = "init") => UNCHANGED client
       /\ pc' = "idle" => Idle']_vars

C14_Witness ==
    /\ Ended
    /\ InCall
    /\ Raised("KeyError")
    /\ client = <<"HTTPProtocol", "ems", PyInt(7777)>>

\* C15: when a call has ended, by return or by exception, the
\* connection it opened is closed.
C15_ConnectionClosedAfterCall ==
    (Ended /\ InCall) => conn # "open"

HttpURIs == {"http://ems:7777", "HTTP://ems:7777", "http://ems"}
TelnetURIs == {"telnet://ems:1112"}

\* C17: the scheme of the URI alone selects the transport: constructing
\* a client from an http URI yields the HTTP transport and from a telnet
\* URI the unimplemented one; either construction succeeds and does no
\* network I/O, and on the unimplemented transport a failure appears
\* only once a command is issued.
C17_SchemeSelectsTransport ==
    [][/\ (pc = "idle" /\ call'.kind = "init" /\ call'.uri \in HttpURIs \cup TelnetURIs) =>
            /\ protocol' = (IF call'.uri \in HttpURIs THEN "HTTPProtocol"
                            ELSE "TelnetProtocol")
            /\ pc' = "done"
            /\ outcome' = Return(PyNone)
            /\ trace' = <<"__init__">>
            /\ sends' = 0
            /\ conn' = "none"
            /\ response' = NoResponse
       /\ (Ended' /\ ~outcome'.ok /\ outcome'.exc.type = "NotImplementedError") =>
            /\ InCall'
            /\ protocol' = "TelnetProtocol"
            /\ Len(trace') > 2]_vars

C17_Witness ==
    /\ Ended
    /\ call = [kind |-> "init", uri |-> "telnet://ems:1112"]
    /\ outcome = Return(PyNone)
    /\ client = <<"TelnetProtocol", "ems", PyInt(1112)>>
    /\ sends = 0
    /\ conn = "none"

\* the call supplies each required argument once, by position or by name
SuppliesRequired ==
    LET required == Ops[call.op].required IN
    /\ Len(call.args) <= Len(required)
    /\ \A i \in 1..Len(required) :
         (i <= Len(call.args)) # HasKey(call.kwargs, required[i])

\* every keyword of the call is a required name or an allow-listed one
OnlyAllowListed ==
    \A i \in 1..Len(call.kwargs) :
        call.kwargs[i][1] \in Range(Ops[call.op].required) \cup Range(Ops[call.op].allow)

\* C18: a call that supplies the required arguments of its operation, by
\* position or by name, and otherwise only allow-listed keywords is never
\* rejected by the allow-list check: it does not end with the usage error
\* and goes on to the transport.
C18_RequiredNeverRejected ==
    (InCall /\ SuppliesRequired /\ OnlyAllowListed) =>
        /\ ~(Len(trace) = 1 /\ Raised("EvoStreamException"))
        /\ Executing

C18_Witness ==
    /\ InCall
    /\ call.op = "get_config_info"
    /\ call.args = <<>>
    /\ call.kwargs = << <<"id", PyInt(2)>> >>
    /\ params = << <<"id", PyInt(2)>> >>
    /\ pc = "request"

\* the (name, text) pairs a parameter dict is encoded from
Formatted(prms) == {<<prms[i][1], format(prms[i][2])>> : i \in 1..Len(prms)}

\* the parameter dicts a caller of the operation can hand to the transport
Mappings(op) == KwSeqs(KwNames(op, MaxUriOptKeys), UriValues, MaxUriKw)

\* C19: two different parameter mappings of the same command never give
\* the same request URI, also when values contain spaces or "=".
C19_EncodingUnambiguous ==
    (InCall /\ pc = "request") =>
        \A other \in Mappings(call.op) :
            (Formatted(other) # Formatted(params) /\ make_uri(command, other).ok)
                => make_uri(command, other).value # uri

\* C20: the decoder raises the domain error only when the status is
\* exactly "FAIL"; a well-formed response with any other status, "OK" or
\* not, is a success and the call returns its data field.
C20_OnlyExactFailRaises ==
    Decoded =>
        /\ Raised("EvoStreamException") =>
             (BodyHas("status") /\ BodyField("status") = PyStr("FAIL"))
        /\ (BodyHas("status") /\ BodyField("status") # PyStr("FAIL") /\ BodyHas("data")) =>
             outcome = Return(BodyField("data"))

C20_Witness ==
    /\ Decoded
    /\ response.body = BodyLowerFail
    /\ outcome = Return(PyInt(3))

\* C16: calls that threads issue concurrently on one client do not
\* interfere: under every interleaving each call has a connection no other
\* call has, sends the request built from its own command and
\* parameters on it, and its outcome is that of its own arguments and of
\* the reply to its own request.
C16_NoInterference ==
    \A t \in Threads :
      LET th == threads[t]
          own == net[th.conn]
      IN
      /\ th.conn # 0 =>
           /\ own.state # "free"
           /\ \A u \in Threads \ {t} : threads[u].conn # th.conn
      /\ th.pc \in {"request", "getresponse", "read", "parse_result"} =>
           /\ th.conn # 0
           /\ th.command = Ops[th.call.op].command
           /\ Return(th.params) = facade(th.call.op, th.call.args, th.call.kwargs)
           /\ Return(th.uri) = make_uri(th.command, th.params)
      /\ th.pc = "request" => (own.request = "" /\ own.reply = "")
      /\ th.pc \in {"getresponse", "read", "parse_result"} => own.request = th.uri
      /\ th.pc = "parse_result" => th.body = own.reply
      /\ th.pc = "done" =>
           CASE th.last = "call" ->
                  th.outcome = facade(th.call.op, th.call.args, th.call.kwargs)
             [] th.last = "get_result" ->
                  th.outcome = get_result(protocol, port, th.command, th.params)
             [] th.last = "request" ->
                  /\ ~th.outcome.ok
                  /\ th.outcome.exc.type = "EvoStreamException"
                  /\ own.request = ""
             [] th.last \in {"getresponse", "read"} ->
                  /\ ~th.outcome.ok
                  /\ own.request = th.uri
             [] OTHER ->
                  /\ own.request = th.uri
                  /\ th.outcome = parse_result(own.reply)

C16_Witness ==
    /\ threads[1].pc = "done"
    /\ threads[2].pc = "done"
    /\ threads[1].last = "parse_result"
    /\ threads[2].last = "parse_result"
    /\ threads[1].conn # threads[2].conn
    /\ threads[1].uri # threads[2].uri
    /\ net[threads[1].conn].reply = BodyOkScalar
    /\ net[threads[2].conn].reply = BodyFail
    /\ threads[1].outcome = Return(PyInt(7))
    /\ threads[2].outcome = Raise("EvoStreamException", PyStr("stream not found"))

\* the field that the status of the parsed body requires
RequiredField == IF BodyField("status") = PyStr("FAIL") THEN "description" ELSE "data"

\* C21: a response that parses to an object with a status but lacks the
\* field the status requires (description for "FAIL", data otherwise)
\* ends the call with a KeyError naming that field; the call returns no
\* payload and does not raise the domain error.
C21_MissingFieldIsLookupError ==
    (Decoded /\ BodyHas("status") /\ ~BodyHas(RequiredField)) =>
        /\ ~outcome.ok
        /\ outcome.exc.type # "EvoStreamException"
        /\ outcome = Raise("KeyError", PyStr(RequiredField))

C21_Witness ==
    /\ Decoded
    /\ response.body = BodyFailBare
    /\ outcome = Raise("KeyError", PyStr("description"))

\* C22: on the HTTP transport the status code of the response is never
\* inspected: getresponse fails only with an error of the network or of
\* the HTTP framing, a body received with any status code goes to the
\* decoder, and the outcome of the call is a function of the body alone.
C22_StatusCodeIgnored ==
    [][/\ (pc = "getresponse" /\ pc' = "done") =>
            /\ ~outcome'.ok
            /\ outcome'.exc.type \in ReadErrors \cup {"BadStatusLine"}
       /\ (pc = "read" /\ pc' = "parse_result") =>
            /\ response'.status = response.status
            /\ response'.status \in StatusCodes
       /\ (pc = "parse_result" /\ pc' = "done") =>
            /\ UNCHANGED response
            /\ outcome' = parse_result(response.body)]_vars

C22_Witness ==
    /\ Decoded
    /\ response = [status |-> 404, body |-> BodyOkCount]
    /\ outcome = Return(PyDict(<< <<"count", PyInt(5)>> >>))

\* the text has a character outside ASCII
NonAscii_text(text) == \E i \in 1..Len(text) : ord[CharAt(text, i)] > 127

\* a key or a formatted value of the parameter dict has such a character
NonAsciiParams ==
    \E i \in 1..Len(params) :
        NonAscii_text(params[i][1]) \/ NonAscii_text(format(params[i][2]))

\* get_result has run in the call
RanGetResult == \E i \in 1..Len(trace) : trace[i] = "get_result"

\* C23: on the HTTP transport a call whose parameter keys or values hold
\* a character outside ASCII ends in get_result, while the request URI is
\* built, with UnicodeEncodeError, which is not the domain error, and
\* sends no request; only such a call ends so, and a call with an empty
\* parameter dict always gets its URI built.
C23_NonAsciiFailsBeforeSend ==
    /\ (protocol = "HTTPProtocol" /\ RanGetResult /\ NonAsciiParams) =>
         /\ Raised("UnicodeEncodeError")
         /\ outcome.exc.type # "EvoStreamException"
         /\ Last(trace) = "get_result"
         /\ uri = ""
         /\ sends = 0
         /\ conn # "open"
    /\ Raised("UnicodeEncodeError") => (params # <<>> /\ NonAsciiParams)
    /\ (protocol = "HTTPProtocol" /\ RanGetResult /\ params = <<>>) =>
         uri = "/" \o command

C23_Witness ==
    /\ call.kind = "execute"
    /\ params = << <<"id", PyStr("1")>>, <<"~", PyStr("1")>> >>
    /\ Raised("UnicodeEncodeError")
    /\ trace = <<"execute", "get_result">>
    /\ sends = 0

====
